---- MODULE Spec2Model ----
(***************************************************************************)
(* The registration-gated message dispatch of src/gemini.py: the four      *)
(* handlers start, handle_contact, handle_message and handle_image, the    *)
(* users and files collections they share, and the wall clock they read.   *)
(*                                                                         *)
(* A handler is a coroutine.  It runs without interruption from one await  *)
(* to the next, so one action of the model is "the awaited call returns    *)
(* (or raises) and the handler runs up to its next await".  The effect of  *)
(* the awaited call on the document store or on the chat is placed at the  *)
(* instant the call returns.  A document a handler passes to insert_one or *)
(* update_one is built, and datetime.now() in it is read, when the call is *)
(* issued; the store applies it when the call returns.                     *)
(*                                                                         *)
(* Invocations may overlap at every await, as they do when the Application *)
(* processes updates concurrently or a second process serves the same      *)
(* database; the runs in which one handler ends before the next begins are *)
(* among the behaviours.                                                   *)
(*                                                                         *)
(* first_name, username and created_at of a user record are written by the *)
(* insert and never read or written again; the model leaves them out.      *)
(***************************************************************************)
EXTENDS Integers, Sequences, FiniteSets, TLC

\* Bounds of the model: updates delivered, and the values of the clock.
MaxEvents == 2
MaxClock == 2

\* Inputs the chat platform can deliver.
ChatIds == {7}
Texts == {"hello"}
Phones == {"+15551234567", "+15550000000"}
FileIds == {"photo1"}

\* A chat that registered in an earlier run and sends nothing in this one.
OtherChats == {42}
OtherPhone == "+15559999999"

Tasks == 1..MaxEvents

VARIABLES
    users,      \* the users collection, in insertion (natural) order
    files,      \* the files collection (interaction records)
    clock,      \* the last value datetime.now(timezone.utc) returned
    tasks,      \* the handler invocations, by order of arrival
    n,          \* how many updates the dispatcher has handed to a handler
    completed   \* history: chat ids whose record a contact update has taken
                \* from registered=false

vars == <<users, files, clock, tasks, n, completed>>

\* ------------------------------------------------------------------------
\* Messages, as tuples of strings.
MsgWelcome == <<"Welcome! Please share your phone number to register:">>
MsgReady == <<"Welcome back! You're fully registered and ready to chat!">>
MsgIncomplete == <<"Registration incomplete. Please share your contact:">>
MsgUnavailable == <<"Service temporary unavailable. Please try again later.">>
MsgRegOk == <<"Registration successful! Ask me anything:">>
MsgRegFailed == <<"Registration failed. Please try /start">>
MsgRegError == <<"Registration error. Please try again.">>
MsgNeedReg == <<"Complete registration first!", "Use /start and share your contact.">>
MsgError == <<"Error processing your message">>
MsgImageFailed == <<"Failed to analyze image">>

\* The names src/gemini.py binds from the telegram package.
Imported == {"Update", "ReplyKeyboardMarkup", "KeyboardButton"}

\* phone_number of a record that has no such field.
NoPhone == "absent"

\* What the handlers pass to generate_content_async.
TextPrompt(text) == <<text>>
ImagePrompt(file) == <<"Analyze this image:", file>>

\* response.text for a prompt.
GenerateContent(prompt) == <<"gemini">> \o prompt

\* datetime.now(timezone.utc): the clock does not run backwards, and may or
\* may not have advanced since it was last read.
Now(c) == {t \in {c, c + 1} : t <= MaxClock}

\* ------------------------------------------------------------------------
\* The document store.

\* find_one and update_one take the first document, in natural order, that
\* matches the filter: the least of the matching indices, 0 if none matches.
FirstIndex(matching) ==
    IF matching = {} THEN 0
    ELSE CHOOSE i \in matching : \A j \in matching : i <= j

\* find_one({"chat_id": chat_id}) and the filter of update_one.
FindByChat(coll, chat) ==
    FirstIndex({i \in 1..Len(coll) : coll[i].chat_id = chat})

\* Variant of FindRegistered: the filter leaves out "registered": True.
FindRegisteredNoFilter(coll, chat) ==
    FirstIndex({i \in 1..Len(coll) : coll[i].chat_id = chat})

\* find_one({"chat_id": chat_id, "registered": True})
FindRegistered(coll, chat) ==
    FirstIndex({i \in 1..Len(coll) :
                    coll[i].chat_id = chat /\ coll[i].registered})

\* The document start inserts.
NewUser(chat, last) ==
    [chat_id |-> chat, registered |-> FALSE, phone_number |-> NoPhone,
     last_interaction |-> last]

\* Variant of SetRegistration: "$set" without phone_number.
SetRegistrationNoPhone(doc, phone, ts) ==
    [doc EXCEPT !.registered = TRUE, !.last_interaction = ts]

\* Variant of SetRegistration: "$set" without registered.
SetRegistrationNoFlag(doc, phone, ts) ==
    [doc EXCEPT !.phone_number = phone, !.last_interaction = ts]

\* {"$set": {"phone_number": ..., "registered": True, "last_interaction": ...}}
SetRegistration(doc, phone, ts) ==
    [doc EXCEPT !.phone_number = phone, !.registered = TRUE,
                !.last_interaction = ts]

\* Variant of SetLastInteraction: the update replaces the document instead
\* of setting one field, and the registration is lost.
SetLastInteractionReplacing(doc, ts) ==
    [doc EXCEPT !.registered = FALSE, !.phone_number = NoPhone,
                !.last_interaction = ts]

\* Variant of SetLastInteraction: a timestamp that is not the clock's.
SetLastInteractionEpoch(doc, ts) == [doc EXCEPT !.last_interaction = 0]

\* {"$set": {"last_interaction": ...}}
SetLastInteraction(doc, ts) == [doc EXCEPT !.last_interaction = ts]

\* The interaction record handle_image inserts.
Interaction(chat, file, analysis, ts) ==
    [user_id |-> chat, file_id |-> file, analysis |-> analysis, timestamp |-> ts]

\* last_interaction of the record update_one({"chat_id": chat}) would change,
\* 0 when there is none (the clock starts at 1).
TargetLastInteraction(coll, chat) ==
    LET i == FindByChat(coll, chat)
    IN IF i = 0 THEN 0 ELSE coll[i].last_interaction

HasRegistered(coll, chat) ==
    \E i \in 1..Len(coll) : coll[i].chat_id = chat /\ coll[i].registered

\* ------------------------------------------------------------------------
\* Handler invocations.

Idle ==
    [kind |-> "none", chat |-> 0, arg |-> "", pc |-> "idle",
     \* local variables of the handler
     ts |-> 0, resp |-> <<>>, out |-> <<>>, user |-> "unset",
     modified |-> -1,
     \* history of the invocation
     failed |-> FALSE,      \* an exception reached the except block
     sent |-> <<>>,         \* the replies delivered to the chat
     calls |-> <<>>,        \* the prompts passed to generate_content_async
     gateReg |-> "unset",   \* a registered record existed at the gate lookup
     afterReg |-> FALSE,    \* the gate lookup followed a completed registration
     preReg |-> "unset",    \* registered of the record the contact update hit
     regOk |-> FALSE,       \* that record right after the contact update
     seenLi |-> 0,          \* last_interaction seen when the clock was read
     wrote |-> 0,           \* user records this invocation has modified
     logged |-> FALSE]      \* the interaction record was inserted

\* The message each handler's except block sends.
ErrorMessage(kind) ==
    CASE kind = "start" -> MsgUnavailable
      [] kind = "contact" -> MsgRegError
      [] kind = "text" -> MsgError
      [] kind = "image" -> MsgImageFailed

\* An exception inside the try block: the except block logs it and awaits
\* reply_text with the handler's generic message.
Except(task) ==
    [task EXCEPT !.pc = "except_reply", !.failed = TRUE,
                 !.out = ErrorMessage(task.kind)]

\* await update.message.reply_text(msg): the last statement of its branch.
AwaitReply(task, msg) == [task EXCEPT !.pc = "reply", !.out = msg]

\* await update.message.reply_text(msg, reply_markup=ReplyKeyboardRemove()):
\* the argument is evaluated first, and an unbound name raises NameError.
ReplyRemovingKeyboard(task, msg) ==
    IF "ReplyKeyboardRemove" \in Imported
    THEN AwaitReply(task, msg)
    ELSE Except(task)

\* The handler returns (pc "done") or an exception leaves it (pc "raised"):
\* its local variables are gone, what it did remains.
Finish(task, pc) ==
    [task EXCEPT !.pc = pc, !.ts = 0, !.resp = <<>>, !.out = <<>>,
                 !.seenLi = 0]

\* The collections outlive the process: at startup the users collection
\* holds what earlier runs left in it.  It is empty, or another chat has
\* registered and the chat that sends updates has started or has registered.
Stored(chat, registered, phone) ==
    [chat_id |-> chat, registered |-> registered, phone_number |-> phone,
     last_interaction |-> 1]

InitialUsers ==
    LET other == Stored(CHOOSE c \in OtherChats : TRUE, TRUE, OtherPhone)
    IN {<<>>}
       \cup {<<other, Stored(c, FALSE, NoPhone)>> : c \in ChatIds}
       \cup {<<other, Stored(c, TRUE, p)>> : c \in ChatIds, p \in Phones}

Init ==
    /\ users \in InitialUsers
    /\ files = <<>>
    /\ clock = 1
    /\ tasks = [t \in Tasks |-> Idle]
    /\ n = 0
    /\ completed = {}

\* ------------------------------------------------------------------------
\* The dispatcher hands an update to its handler, which runs to its first
\* await.

Begin(kind, chat, arg) ==
    [Idle EXCEPT !.kind = kind, !.chat = chat, !.arg = arg]

\* CommandHandler('start', start): lines 77-81, up to await find_one.
RecvStart(chat) ==
    /\ n < MaxEvents
    /\ n' = n + 1
    /\ tasks' = [tasks EXCEPT ![n + 1] =
                    [Begin("start", chat, "") EXCEPT !.pc = "find"]]
    /\ UNCHANGED <<users, files, clock, completed>>

\* MessageHandler(filters.CONTACT, handle_contact): lines 119-129, the update
\* document is built (the clock read) and update_one awaited.
RecvContact(chat, phone) ==
    /\ n < MaxEvents
    /\ n' = n + 1
    /\ \E now \in Now(clock) :
        /\ clock' = now
        /\ tasks' = [tasks EXCEPT ![n + 1] =
                        [Begin("contact", chat, phone) EXCEPT
                            !.pc = "update", !.ts = now,
                            !.seenLi = TargetLastInteraction(users, chat)]]
    /\ UNCHANGED <<users, files, completed>>

\* MessageHandler(filters.TEXT & ~filters.COMMAND, handle_message): lines
\* 151-157, up to await find_one.
RecvText(chat, text) ==
    /\ n < MaxEvents
    /\ n' = n + 1
    /\ tasks' = [tasks EXCEPT ![n + 1] =
                    [Begin("text", chat, text) EXCEPT !.pc = "gate"]]
    /\ UNCHANGED <<users, files, clock, completed>>

\* MessageHandler(filters.PHOTO, handle_image): lines 183-186, up to await
\* get_file.
RecvPhoto(chat, file) ==
    /\ n < MaxEvents
    /\ n' = n + 1
    /\ tasks' = [tasks EXCEPT ![n + 1] =
                    [Begin("image", chat, file) EXCEPT !.pc = "get_file"]]
    /\ UNCHANGED <<users, files, clock, completed>>

\* ------------------------------------------------------------------------
\* start

\* find_one returns user_data (line 81); lines 83-109 up to the next await.
StartFindReturns(t) ==
    LET task == tasks[t]
        i == FindByChat(users, task.chat)
    IN
    /\ task.kind = "start" /\ task.pc = "find"
    /\ IF i = 0
       THEN \* created_at (line 90), then last_interaction (line 91)
            \E created \in Now(clock) : \E last \in Now(created) :
                /\ clock' = last
                /\ tasks' = [tasks EXCEPT ![t] =
                                [task EXCEPT !.pc = "insert", !.ts = last]]
       ELSE /\ clock' = clock
            /\ tasks' = [tasks EXCEPT ![t] =
                            IF users[i].registered
                            THEN ReplyRemovingKeyboard(task, MsgReady)
                            ELSE AwaitReply(task, MsgIncomplete)]
    /\ UNCHANGED <<users, files, n, completed>>

\* insert_one returns (line 85); the welcome reply is awaited (line 93).
StartInsertReturns(t) ==
    LET task == tasks[t]
    IN
    /\ task.kind = "start" /\ task.pc = "insert"
    /\ users' = Append(users, NewUser(task.chat, task.ts))
    /\ tasks' = [tasks EXCEPT ![t] = AwaitReply(task, MsgWelcome)]
    /\ UNCHANGED <<files, clock, n, completed>>

\* ------------------------------------------------------------------------
\* handle_contact

\* update_one returns its result (line 122); lines 131-141.  modified_count
\* counts the matched document only if the update changed it.
ContactUpdateReturns(t) ==
    LET task == tasks[t]
        i == FindByChat(users, task.chat)
        new == SetRegistration(users[i], task.arg, task.ts)
        modified == IF i # 0 /\ new # users[i] THEN 1 ELSE 0
        fresh == i # 0 /\ ~users[i].registered
        after == [task EXCEPT
                    !.modified = modified,
                    !.wrote = modified,
                    !.preReg = IF i = 0 THEN "none"
                               ELSE IF users[i].registered THEN "yes" ELSE "no",
                    !.regOk = i # 0 /\ new.registered
                                    /\ new.phone_number = task.arg]
    IN
    /\ task.kind = "contact" /\ task.pc = "update"
    /\ users' = IF i = 0 THEN users ELSE [users EXCEPT ![i] = new]
    /\ completed' = IF fresh THEN completed \cup {task.chat} ELSE completed
    /\ tasks' = [tasks EXCEPT ![t] =
                    IF modified = 1
                    THEN ReplyRemovingKeyboard(after, MsgRegOk)
                    ELSE ReplyRemovingKeyboard(after, MsgRegFailed)]
    /\ UNCHANGED <<files, clock, n>>

\* ------------------------------------------------------------------------
\* handle_message

\* The gate's find_one returns user (line 155); lines 159-168.
GateReturns(t) ==
    LET task == tasks[t]
        i == FindRegistered(users, task.chat)
        seen == [task EXCEPT
                    !.user = IF i = 0 THEN "none" ELSE "found",
                    !.gateReg = IF HasRegistered(users, task.chat)
                                 THEN "yes" ELSE "no",
                    !.afterReg = task.chat \in completed]
    IN
    /\ task.kind = "text" /\ task.pc = "gate"
    /\ tasks' = [tasks EXCEPT ![t] =
                    IF i = 0
                    THEN ReplyRemovingKeyboard(seen, MsgNeedReg)
                    ELSE [seen EXCEPT
                            !.pc = "generate",
                            !.calls = Append(@, TextPrompt(task.arg))]]
    /\ UNCHANGED <<users, files, clock, n, completed>>

\* generate_content_async returns response (line 168); response.text is sent
\* (line 169).
TextGenerateReturns(t) ==
    LET task == tasks[t]
        text == GenerateContent(TextPrompt(task.arg))
    IN
    /\ task.kind = "text" /\ task.pc = "generate"
    /\ tasks' = [tasks EXCEPT ![t] =
                    [task EXCEPT !.pc = "send", !.resp = text, !.out = text]]
    /\ UNCHANGED <<users, files, clock, n, completed>>

\* reply_text returns (line 169); the update document is built and update_one
\* awaited (lines 172-175).
SendReturns(t) ==
    LET task == tasks[t]
    IN
    /\ task.kind = "text" /\ task.pc = "send"
    /\ \E now \in Now(clock) :
        /\ clock' = now
        /\ tasks' = [tasks EXCEPT ![t] =
                        [task EXCEPT
                            !.pc = "update", !.ts = now,
                            !.sent = Append(@, task.out),
                            !.seenLi = TargetLastInteraction(users, task.chat)]]
    /\ UNCHANGED <<users, files, n, completed>>

\* update_one returns (line 172); the handler ends.
TextUpdateReturns(t) ==
    LET task == tasks[t]
        i == FindByChat(users, task.chat)
    IN
    /\ task.kind = "text" /\ task.pc = "update"
    /\ users' = IF i = 0 THEN users
                ELSE [users EXCEPT ![i] = SetLastInteraction(@, task.ts)]
    /\ tasks' = [tasks EXCEPT ![t] =
                    Finish([task EXCEPT !.wrote = IF i = 0 THEN 0 ELSE 1],
                           "done")]
    /\ UNCHANGED <<files, clock, n, completed>>

\* ------------------------------------------------------------------------
\* handle_image

\* get_file returns photo_file (line 186); download awaited (line 187).
GetFileReturns(t) ==
    LET task == tasks[t]
    IN
    /\ task.kind = "image" /\ task.pc = "get_file"
    /\ tasks' = [tasks EXCEPT ![t] = [task EXCEPT !.pc = "download"]]
    /\ UNCHANGED <<users, files, clock, n, completed>>

\* download_as_bytearray returns (line 187); Image.open(...).convert('RGB')
\* decodes the bytes or raises (line 189); generate_content_async is awaited
\* (line 190).
DownloadReturns(t) ==
    LET task == tasks[t]
    IN
    /\ task.kind = "image" /\ task.pc = "download"
    /\ \E decodes \in BOOLEAN :
        tasks' = [tasks EXCEPT ![t] =
                    IF decodes
                    THEN [task EXCEPT
                            !.pc = "generate",
                            !.calls = Append(@, ImagePrompt(task.arg))]
                    ELSE Except(task)]
    /\ UNCHANGED <<users, files, clock, n, completed>>

\* generate_content_async returns response (line 190); the interaction record
\* is built and insert_one awaited (lines 192-197).
ImageGenerateReturns(t) ==
    LET task == tasks[t]
    IN
    /\ task.kind = "image" /\ task.pc = "generate"
    /\ \E now \in Now(clock) :
        /\ clock' = now
        /\ tasks' = [tasks EXCEPT ![t] =
                        [task EXCEPT
                            !.pc = "log", !.ts = now,
                            !.resp = GenerateContent(ImagePrompt(task.arg))]]
    /\ UNCHANGED <<users, files, n, completed>>

\* insert_one returns (line 192); the analysis is sent (line 199).
LogReturns(t) ==
    LET task == tasks[t]
    IN
    /\ task.kind = "image" /\ task.pc = "log"
    /\ files' = Append(files,
                       Interaction(task.chat, task.arg, task.resp, task.ts))
    /\ tasks' = [tasks EXCEPT ![t] =
                    AwaitReply([task EXCEPT !.logged = TRUE], task.resp)]
    /\ UNCHANGED <<users, clock, n, completed>>

\* ------------------------------------------------------------------------
\* Steps every handler shares.

AwaitedInTry ==
    {"find", "insert", "update", "gate", "generate", "send", "get_file",
     "download", "log", "reply"}

\* The last reply_text of a branch returns: the handler ends.
ReplyReturns(t) ==
    LET task == tasks[t]
    IN
    /\ task.pc = "reply"
    /\ tasks' = [tasks EXCEPT ![t] =
                    Finish([task EXCEPT !.sent = Append(@, task.out)], "done")]
    /\ UNCHANGED <<users, files, clock, n, completed>>

\* The call awaited inside the try block raises, without effect: except
\* Exception logs it and awaits reply_text with the generic message.
CallRaises(t) ==
    LET task == tasks[t]
    IN
    /\ task.pc \in AwaitedInTry
    /\ tasks' = [tasks EXCEPT ![t] = Except(task)]
    /\ UNCHANGED <<users, files, clock, n, completed>>

\* The reply_text of the except block returns: the handler ends.
ExceptReplyReturns(t) ==
    LET task == tasks[t]
    IN
    /\ task.pc = "except_reply"
    /\ tasks' = [tasks EXCEPT ![t] =
                    Finish([task EXCEPT !.sent = Append(@, task.out)], "done")]
    /\ UNCHANGED <<users, files, clock, n, completed>>

\* The reply_text of the except block raises: nothing catches it, and the
\* exception leaves the handler.
ExceptReplyRaises(t) ==
    LET task == tasks[t]
    IN
    /\ task.pc = "except_reply"
    /\ tasks' = [tasks EXCEPT ![t] = Finish(task, "raised")]
    /\ UNCHANGED <<users, files, clock, n, completed>>

Next ==
    \/ \E c \in ChatIds : RecvStart(c)
    \/ \E c \in ChatIds, p \in Phones : RecvContact(c, p)
    \/ \E c \in ChatIds, x \in Texts : RecvText(c, x)
    \/ \E c \in ChatIds, f \in FileIds : RecvPhoto(c, f)
    \/ \E t \in Tasks : StartFindReturns(t)
    \/ \E t \in Tasks : StartInsertReturns(t)
    \/ \E t \in Tasks : ContactUpdateReturns(t)
    \/ \E t \in Tasks : GateReturns(t)
    \/ \E t \in Tasks : TextGenerateReturns(t)
    \/ \E t \in Tasks : SendReturns(t)
    \/ \E t \in Tasks : TextUpdateReturns(t)
    \/ \E t \in Tasks : GetFileReturns(t)
    \/ \E t \in Tasks : DownloadReturns(t)
    \/ \E t \in Tasks : ImageGenerateReturns(t)
    \/ \E t \in Tasks : LogReturns(t)
    \/ \E t \in Tasks : ReplyReturns(t)
    \/ \E t \in Tasks : CallRaises(t)
    \/ \E t \in Tasks : ExceptReplyReturns(t)
    \/ \E t \in Tasks : ExceptReplyRaises(t)

Spec == Init /\ [][Next]_vars

\* ------------------------------------------------------------------------
\* Properties.

Ended(task) == task.pc \in {"done", "raised"}

Answer(task) == GenerateContent(TextPrompt(task.arg))
Analysis(task) == GenerateContent(ImagePrompt(task.arg))

\* C1: a text handler whose gate lookup ran while no record of its chat_id
\* had registered=true (none at all, or only unregistered ones) makes no call
\* to the model and modifies no user record.
C1_GateBlocksUnregistered ==
    \A t \in Tasks :
        (tasks[t].kind = "text" /\ tasks[t].gateReg = "no")
            => /\ tasks[t].calls = <<>>
               /\ tasks[t].wrote = 0
               /\ tasks[t].pc \notin {"generate", "send", "update"}

\* A text handler has been turned away at the gate and has ended, for a chat
\* whose record exists and is unregistered.
C1_Witness ==
    \E t \in Tasks :
        /\ tasks[t].kind = "text" /\ tasks[t].gateReg = "no"
        /\ tasks[t].pc = "done"
        /\ FindByChat(users, tasks[t].chat) # 0

\* C2: the users collection holds at most one record per chat_id.
C2_OneRecordPerChat ==
    \A i, j \in 1..Len(users) :
        users[i].chat_id = users[j].chat_id => i = j

\* C3: a text handler that has returned has sent exactly one reply.  (One
\* that an exception has left has sent none; that case is C9's.)
C3_ExactlyOneReply ==
    \A t \in Tasks :
        (tasks[t].kind = "text" /\ tasks[t].pc = "done")
            => Len(tasks[t].sent) = 1

\* C4: an image handler that has returned has sent exactly one reply, and
\* has inserted its interaction record exactly when that reply is the
\* analysis.  (One that an exception has left has sent none; that case is
\* C9's.)
C4_RecordIffAnalysis ==
    \A t \in Tasks :
        (tasks[t].kind = "image" /\ tasks[t].pc = "done")
            => /\ Len(tasks[t].sent) = 1
               /\ tasks[t].logged <=> (tasks[t].sent = <<Analysis(tasks[t])>>)

\* C5: a contact update that hits a record with registered=false leaves it
\* registered with the shared phone number; a text handler whose gate lookup
\* follows such an update passes the gate and calls the model with the text
\* verbatim, the reply it sends from the try block is the model's response,
\* and it sends exactly that reply unless one of its awaited calls raises.
C5_RegisteredThenAccepted ==
    \A t \in Tasks :
        /\ (tasks[t].kind = "contact" /\ tasks[t].preReg = "no")
            => tasks[t].regOk
        /\ (tasks[t].kind = "text" /\ tasks[t].afterReg)
            => /\ tasks[t].user = "found"
               /\ tasks[t].calls = <<TextPrompt(tasks[t].arg)>>
               /\ tasks[t].sent # <<>> =>
                    \/ tasks[t].sent[1] = Answer(tasks[t])
                    \/ tasks[t].sent = <<MsgError>>
               /\ (~tasks[t].failed /\ tasks[t].pc \in {"update", "done"})
                    => tasks[t].sent = <<Answer(tasks[t])>>

\* A registration has completed on an unregistered record, and a text handler
\* that looked the chat up afterwards has replied with the model's response.
C5_Witness ==
    \E c, t \in Tasks :
        /\ tasks[c].kind = "contact" /\ tasks[c].preReg = "no"
        /\ tasks[t].kind = "text" /\ tasks[t].afterReg
        /\ tasks[t].chat = tasks[c].chat
        /\ tasks[t].pc = "done" /\ ~tasks[t].failed
        /\ tasks[t].sent = <<Answer(tasks[t])>>

\* C6, as claimed: no step lowers last_interaction of a user record.
C6_Monotone ==
    [][\A i \in 1..Len(users) :
            users'[i].last_interaction >= users[i].last_interaction]_vars

\* C6, amended: an update that a handler commits stores a last_interaction at
\* least as large as the one the record held when that handler read the clock.
C6_NotBelowValueSeen ==
    [][\A t \in Tasks : \A i \in 1..Len(users) :
            (/\ tasks[t].pc = "update"
             /\ tasks'[t] # tasks[t]
             /\ users'[i] # users[i]
             /\ tasks[t].seenLi > 0)
                => users'[i].last_interaction >= tasks[t].seenLi]_vars

\* A handler that read the clock while the record existed has committed its
\* update, and the record holds a later time than it did then.
C6_Witness ==
    \E t \in Tasks :
        /\ tasks[t].kind = "text" /\ tasks[t].pc = "done" /\ tasks[t].wrote = 1
        /\ \E i \in 1..Len(users) :
            /\ users[i].chat_id = tasks[t].chat
            /\ users[i].last_interaction > 1

\* C7: every user record with registered=true has phone_number set.
C7_RegisteredHasPhone ==
    \A i \in 1..Len(users) :
        users[i].registered => users[i].phone_number # NoPhone

\* A record that start inserted in this run has been registered.
C7_Witness ==
    \E s, c \in Tasks :
        /\ tasks[s].kind = "start" /\ tasks[s].pc = "done"
        /\ tasks[s].sent = <<MsgWelcome>>
        /\ tasks[c].kind = "contact" /\ tasks[c].chat = tasks[s].chat
        /\ tasks[c].modified = 1 /\ tasks[c].preReg = "no"
        /\ HasRegistered(users, tasks[c].chat)

\* C8: a contact handler that has ended has sent one reply, the confirmation
\* when its update modified one document and the registration-failure
\* message when it modified none; and it has not told the user that the
\* registration failed or errored while its update registered the record.
C8_ReplyFollowsOutcome ==
    \A t \in Tasks :
        (tasks[t].kind = "contact" /\ Ended(tasks[t]))
            => /\ tasks[t].modified = 1 => tasks[t].sent = <<MsgRegOk>>
               /\ tasks[t].modified = 0 => tasks[t].sent = <<MsgRegFailed>>
               /\ tasks[t].regOk =>
                    \A k \in 1..Len(tasks[t].sent) :
                        tasks[t].sent[k] \notin {MsgRegFailed, MsgRegError}

\* C9: no exception leaves a handler.
C9_NothingEscapes == \A t \in Tasks : tasks[t].pc # "raised"

\* C10: a chat_id that has a record with registered=true keeps one.
C10_RegistrationIrreversible ==
    [][\A c \in ChatIds \cup OtherChats :
            HasRegistered(users, c) => HasRegistered(users', c)]_vars

\* Handlers of every kind that writes to the users collection have run for a
\* chat that was registered, and it is still registered.
C10_Witness ==
    \E t \in Tasks :
        /\ tasks[t].kind = "text" /\ tasks[t].wrote = 1
        /\ tasks[t].gateReg = "yes"
        /\ \E c \in Tasks : tasks[c].kind = "contact" /\ tasks[c].modified = 1
        /\ HasRegistered(users, tasks[t].chat)

====
